---- MODULE Spec2Model ----
(***************************************************************************)
(* A model of ipyloading's Loading / Ring widgets (src/ipyloading/         *)
(* loading.py): the css_params bag, the five property setters, the Ring    *)
(* compute_* transforms and render().                                      *)
(*                                                                         *)
(* Numbers are exact rationals n/d tagged with their Python type (int or   *)
(* float); Python's binary floating point is abstracted to exact           *)
(* arithmetic.  Strings are sequences of one-character strings, so that    *)
(* suffix tests, float()/int() parsing and str() formatting are computed.  *)
(***************************************************************************)
EXTENDS Integers, Sequences, FiniteSets, TLC

VARIABLES obj, published, last, ctor

vars == <<obj, published, last, ctor>>

-----------------------------------------------------------------------------
(* Python values *)

RECURSIVE Gcd(_, _)
Gcd(a, b) == IF b = 0 THEN a ELSE Gcd(b, a % b)

Abs(n) == IF n < 0 THEN -n ELSE n

None == [k |-> "None", n |-> 0, d |-> 1, s |-> <<>>]

Unset == [k |-> "unset", n |-> 0, d |-> 1, s |-> <<>>]

IntV(n) == [k |-> "int", n |-> n, d |-> 1, s |-> <<>>]

FloatV(n, d) ==
  LET g == Gcd(Abs(n), d)
  IN  [k |-> "float", n |-> n \div g, d |-> d \div g, s |-> <<>>]

StrV(s) == [k |-> "str", n |-> 0, d |-> 1, s |-> s]

IsNum(v) == v.k \in {"int", "float"}

IsStr(v) == v.k = "str"

\* float(x) of a number
ToFloat(v) == FloatV(v.n, v.d)

\* bool(x): None, zero and the empty string are falsy
Truthy(v) ==
  CASE v.k = "None" -> FALSE
    [] IsNum(v)     -> v.n # 0
    [] IsStr(v)     -> Len(v.s) > 0
    [] OTHER        -> TRUE

\* a * b, a + b on numbers: an int only when both operands are ints
Mul(a, b) ==
  IF a.k = "int" /\ b.k = "int" THEN IntV(a.n * b.n)
  ELSE FloatV(a.n * b.n, a.d * b.d)

Add(a, b) ==
  IF a.k = "int" /\ b.k = "int" THEN IntV(a.n + b.n)
  ELSE FloatV(a.n * b.d + b.n * a.d, a.d * b.d)

\* a / b with b a nonzero number and a a float
Div(a, b) ==
  IF b.n > 0 THEN FloatV(a.n * b.d, a.d * b.n) ELSE FloatV(-(a.n * b.d), a.d * (-b.n))

\* numeric comparison and equality (20 == 20.0 in Python)
Gt(a, b) == a.n * b.d > b.n * a.d

NumEq(a, b) == a.n * b.d = b.n * a.d

Leq(a, b) == ~Gt(a, b)

\* the float literals of the source
F08 == FloatV(4, 5)

F01 == FloatV(1, 10)

F05 == FloatV(1, 2)

-----------------------------------------------------------------------------
(* Strings: parsing and formatting *)

Digits == <<"0", "1", "2", "3", "4", "5", "6", "7", "8", "9">>

IsDigit(c) == \E i \in 1..10 : Digits[i] = c

DigitVal(c) == (CHOOSE i \in 1..10 : Digits[i] = c) - 1

AllDigits(s) == Len(s) > 0 /\ \A i \in 1..Len(s) : IsDigit(s[i])

RECURSIVE DigitsVal(_)
DigitsVal(s) ==
  IF Len(s) = 0 THEN 0
  ELSE 10 * DigitsVal(SubSeq(s, 1, Len(s) - 1)) + DigitVal(s[Len(s)])

RECURSIVE Pow10(_)
Pow10(k) == IF k = 0 THEN 1 ELSE 10 * Pow10(k - 1)

\* s[-j:] and s[:-j]
Suffix(s, j) == IF Len(s) <= j THEN s ELSE SubSeq(s, Len(s) - j + 1, Len(s))

DropLast(s, j) == IF Len(s) <= j THEN <<>> ELSE SubSeq(s, 1, Len(s) - j)

\* int(s) of an unsigned decimal literal; anything else is a ValueError
ParseInt(s) ==
  IF AllDigits(s) THEN [exc |-> "none", v |-> IntV(DigitsVal(s))]
  ELSE [exc |-> "ValueError", v |-> None]

\* float(s) of an unsigned literal "ddd" or "ddd.ddd"; anything else is a
\* ValueError
ParseFloat(s) ==
  LET dots == {i \in 1..Len(s) : s[i] = "."}
  IN  IF dots = {} THEN
        IF AllDigits(s) THEN [exc |-> "none", v |-> FloatV(DigitsVal(s), 1)]
        ELSE [exc |-> "ValueError", v |-> None]
      ELSE
        LET p  == CHOOSE i \in dots : TRUE
            ip == SubSeq(s, 1, p - 1)
            fp == SubSeq(s, p + 1, Len(s))
        IN  IF Cardinality(dots) = 1 /\ AllDigits(ip \o fp)
              /\ (\A i \in 1..Len(ip) : IsDigit(ip[i]))
              /\ (\A i \in 1..Len(fp) : IsDigit(fp[i]))
            THEN [exc |-> "none",
                  v |-> FloatV(DigitsVal(ip \o fp), Pow10(Len(fp)))]
            ELSE [exc |-> "ValueError", v |-> None]

RECURSIVE NatStr(_)
NatStr(n) ==
  IF n < 10 THEN <<Digits[n + 1]>>
  ELSE NatStr(n \div 10) \o <<Digits[(n % 10) + 1]>>

RECURSIVE FracStr(_, _)
\* the decimal digits of r/d (0 <= r < d, d a divisor of a power of ten)
FracStr(r, d) ==
  IF r = 0 THEN <<>>
  ELSE <<Digits[((10 * r) \div d) + 1]>> \o FracStr((10 * r) % d, d)

IntStr(n) == IF n < 0 THEN <<"-">> \o NatStr(-n) ELSE NatStr(n)

FloatStr(n, d) ==
  LET a    == Abs(n)
      frac == FracStr(a % d, d)
  IN  (IF n < 0 THEN <<"-">> ELSE <<>>) \o NatStr(a \div d) \o <<".">>
        \o (IF frac = <<>> THEN <<"0">> ELSE frac)

\* str(v), as string.Template applies it to a substituted value
PyStr(v) ==
  CASE v.k = "int"   -> IntStr(v.n)
    [] v.k = "float" -> FloatStr(v.n, v.d)
    [] v.k = "str"   -> v.s
    [] OTHER         -> <<"N", "o", "n", "e">>

-----------------------------------------------------------------------------
(* The parameter bag and render() *)

\* the placeholders of Ring's css template
TemplateKeys ==
  {"css_class", "width", "height", "inner_width", "inner_height",
   "margin", "border", "color", "background_color"}

\* what safe_substitute leaves for a key the bag does not hold
Placeholder(key) == <<"$", "{", key, "}">>

NoneText == <<"N", "o", "n", "e">>

\* for key, val in params.items(): self.css_params[key] = val
Merge(bag, params) ==
  [key \in (DOMAIN bag) \cup (DOMAIN params) |->
     IF key \in DOMAIN params THEN params[key] ELSE bag[key]]

\* Template(css).safe_substitute(**css_params), then the html shell with
\* css_class=self.uid
Markup(bag, uid) ==
  [css |-> [key \in TemplateKeys |->
              IF key \in DOMAIN bag THEN PyStr(bag[key]) ELSE Placeholder(key)],
   div_class |-> PyStr(uid)]

\* the value trait of ipywidgets.HTML before the first render: ''
EmptyValue == [css |-> [key \in TemplateKeys |-> <<>>], div_class |-> <<>>]

\* A call in progress: the object, the markups assigned to self.value so far
\* in this call, and the exception raised (if any).
Frame(o) == [self |-> o, out |-> <<>>, exc |-> "none"]

Raise(f, e) == [f EXCEPT !.exc = e]

render(f) ==
  IF f.exc # "none" THEN f
  ELSE LET m == Markup(f.self.css_params, f.self.uid)
       IN  [f EXCEPT !.self.value = m, !.out = Append(@, m)]

merge(f, params) ==
  IF f.exc # "none" THEN f
  ELSE [f EXCEPT !.self.css_params = Merge(@, params)]

-----------------------------------------------------------------------------
(* Ring's compute transforms and Loading's setters *)

\* height taken from the inner height
compute_size_inner_height(size) ==
  [inner_width |-> Mul(size, F08), inner_height |-> Mul(size, F08),
   width |-> size, height |-> Mul(size, F08), size |-> size]

compute_size(size) ==
  [inner_width |-> Mul(size, F08), inner_height |-> Mul(size, F08),
   width |-> size, height |-> size, size |-> size]

size_setter(f, size) ==
  IF f.exc # "none" THEN f
  ELSE LET params == compute_size(size)
       IN  render([merge(f, params) EXCEPT !.self._size = params.size])

\* border > size * 0.5 with border still a string: Python 3 raises TypeError,
\* Python 2 orders any str above any number.
StrGtNum(py) ==
  IF py = "py2" THEN [exc |-> "none", gt |-> TRUE]
  ELSE [exc |-> "TypeError", gt |-> FALSE]

\* lines 261-275: the border before trimming (a string with no known
\* suffix stays a string)
border_value(size, border) ==
  IF ~Truthy(border) THEN [exc |-> "none", v |-> Mul(size, F01)]
  ELSE IF IsNum(border) THEN [exc |-> "none", v |-> border]
  ELSE IF IsStr(border) THEN
    IF Suffix(border.s, 1) = <<"%">> THEN
      LET p == ParseFloat(DropLast(border.s, 1))
      IN  IF p.exc # "none" THEN p
          ELSE [exc |-> "none", v |-> Mul(size, Div(p.v, IntV(100)))]
    ELSE IF Suffix(border.s, 2) = <<"p", "x">> THEN
      ParseFloat(DropLast(border.s, 2))
    ELSE [exc |-> "none", v |-> border]
  ELSE [exc |-> "none", v |-> border]

\* no trimming
trim_none(b, size, py) == [exc |-> "none", border |-> b]

\* trim to 50% if greater
trim(b, size, py) ==
  LET half == Mul(size, F05)
  IN  IF IsStr(b) THEN
        IF StrGtNum(py).exc # "none"
          THEN [exc |-> StrGtNum(py).exc, border |-> None]
        ELSE [exc |-> "none", border |-> IF StrGtNum(py).gt THEN half ELSE b]
      ELSE [exc |-> "none", border |-> IF Gt(b, half) THEN half ELSE b]

\* the base class's passthrough, as if Ring did not override compute_border
compute_border_base(self, border, py) == [exc |-> "none", border |-> border]

compute_border(self, border, py) ==
  LET size == ToFloat(self.css_params.inner_height)
      b    == border_value(size, border)
  IN  IF b.exc # "none" THEN [exc |-> b.exc, border |-> None]
      ELSE trim(b.v, size, py)

border_setter(f, border, py) ==
  IF f.exc # "none" THEN f
  ELSE LET r == compute_border(f.self, border, py)
       IN  IF r.exc # "none" THEN Raise(f, r.exc)
           ELSE render([merge(f, [border |-> r.border])
                          EXCEPT !.self._border = r.border])

\* the margin compute_margin works with, before the overflow test
margin_value(self, margin) ==
  IF ~Truthy(margin) THEN [exc |-> "none", v |-> Mul(self._size, F01)]
  ELSE IF IsNum(margin) THEN [exc |-> "none", v |-> margin]
  ELSE IF IsStr(margin) THEN ParseInt(margin.s)
  ELSE [exc |-> "none", v |-> margin]

\* margin > self.size * 0.1
overfitted(self, m) == Gt(m, Mul(self._size, F01))

\* the size grown from the size instead of from inner_height
escalate_from_size(f, m) ==
  size_setter(f, Add(ToFloat(f.self._size), Mul(IntV(2), m)))

\* self.size = inner + 2*margin, through the size setter (which renders)
escalate(f, m) ==
  size_setter(f, Add(ToFloat(f.self.css_params.inner_height),
                     Mul(IntV(2), m)))

\* compute_margin returns the frame (the size setter may have run) and the
\* margin
compute_margin(f, margin) ==
  LET r == margin_value(f.self, margin)
  IN  IF r.exc # "none" THEN [f |-> Raise(f, r.exc), margin |-> None]
      ELSE [f |-> IF overfitted(f.self, r.v) THEN escalate(f, r.v) ELSE f,
            margin |-> r.v]

margin_setter(f, margin) ==
  IF f.exc # "none" THEN f
  ELSE LET r == compute_margin(f, margin)
       IN  IF r.f.exc # "none" THEN r.f
           ELSE render([merge(r.f, [margin |-> r.margin])
                          EXCEPT !.self._margin = r.margin])

compute_color(color) == [color |-> color]

\* a dirty check: no render when the colour is the one already set
color_setter_dirty(f, color) ==
  IF f.exc # "none" \/ f.self._color = color THEN f
  ELSE render([merge(f, compute_color(color)) EXCEPT !.self._color = color])

color_setter(f, color) ==
  IF f.exc # "none" THEN f
  ELSE LET params == compute_color(color)
       IN  render([merge(f, params) EXCEPT !.self._color = params.color])

compute_background_color(color) == [background_color |-> color]

background_color_setter(f, color) ==
  IF f.exc # "none" THEN f
  ELSE LET params == compute_background_color(color)
       IN  render([merge(f, params)
                     EXCEPT !.self._background_color = params.background_color])

\* extra={}: the default dict every instance shares; nothing writes to it
DefaultExtra == <<>>

\* Loading.__init__, reached from Ring.__init__ with Ring's css and html
init(uid, a, py) ==
  LET o0 == [css_params |-> Merge([size |-> a.size, color |-> a.color,
                                   border |-> a.border,
                                   background_color |-> a.background_color,
                                   css_class |-> uid], DefaultExtra),
             uid |-> uid, value |-> EmptyValue,
             _size |-> None, _border |-> None, _margin |-> None,
             _color |-> Unset, _background_color |-> Unset]
      f1 == size_setter(Frame(o0), a.size)
      f2 == border_setter(f1, a.border, py)
      f3 == margin_setter(f2, a.margin)
      f4 == color_setter(f3, a.color)
      f5 == background_color_setter(f4, a.background_color)
  IN  render(f5)

-----------------------------------------------------------------------------
(* Inputs *)

\* sizes keep at most MaxDigits fractional decimal digits (each margin
\* overflow multiplies the size's denominator by 5)
MaxDigits == 1

Instances == {1, 2}

Chars(str) ==
  CASE str = "black" -> <<"b", "l", "a", "c", "k">>
    [] str = "red"   -> <<"r", "e", "d">>
    [] str = "white" -> <<"w", "h", "i", "t", "e">>
    [] str = "50%"   -> <<"5", "0", "%">>
    [] str = "120%"  -> <<"1", "2", "0", "%">>
    [] str = "2.5px" -> <<"2", ".", "5", "p", "x">>
    [] str = "5em"   -> <<"5", "e", "m">>
    [] str = "x%"    -> <<"x", "%">>
    [] str = "5"     -> <<"5">>
    [] str = "5px"   -> <<"5", "p", "x">>
    [] OTHER         -> <<>>

S(str) == StrV(Chars(str))

Pythons == {"py2", "py3"}

Inputs ==
  [sizes   |-> {IntV(20), IntV(60)},
   borders |-> {None, IntV(12), S("50%"), S("120%"), S("2.5px"), S("5em"),
                S("x%")},
   margins |-> {None, IntV(5), S("5"), S("5px")},
   colors  |-> {S("black"), S("red")},
   backgrounds |-> {S(""), S("white")},
   uuids   |-> {"1"}]

SmallInputs ==
  [sizes   |-> {IntV(20)},
   borders |-> {None},
   margins |-> {IntV(5)},
   colors  |-> {S("black"), S("red")},
   backgrounds |-> {S("")},
   uuids   |-> {"1", "2"}]

CtorArgs(in) ==
  [size : in.sizes, color : in.colors, background_color : in.backgrounds,
   border : in.borders, margin : in.margins]

\* the defaults of Loading.__init__
DefaultArgs ==
  [size |-> IntV(20), color |-> S("black"), background_color |-> S(""),
   border |-> None, margin |-> None]

\* ctor[i] once a setter has been called on instance i
NoArgs ==
  [size |-> None, color |-> None, background_color |-> None,
   border |-> None, margin |-> None]

-----------------------------------------------------------------------------
(* State machine *)
\* obj[i]    the attributes of instance i (css_params, _size, ..., value)
\* published the markups the last call assigned to its instance's value
\* last      the last call: instance, operation, argument, exception
\* ctor[i]   the constructor arguments of instance i, kept until the first
\*           setter call on it

NoCall ==
  [inst |-> 0, op |-> "none", arg |-> None, exc |-> "none", same |-> FALSE]

\* same: the argument is the value the property's getter returned before
\* the call
Call(i, op, arg, f, same) ==
  [inst |-> i, op |-> op, arg |-> arg, exc |-> f.exc, same |-> same]

Extend(fn, i, v) ==
  [j \in (DOMAIN fn) \cup {i} |-> IF j = i THEN v ELSE fn[j]]

\* the attributes held once, on the class, for every instance
StoreShared(objs, i, o) == [j \in DOMAIN objs |-> [o EXCEPT !.uid = objs[j].uid]]

\* self.css_params / self._x = ... act on the instance's own attributes
Store(objs, i, o) == [objs EXCEPT ![i] = o]

Precise(o) == Pow10(MaxDigits) % o._size.d = 0

\* 'a' + str(uuid4()): a uuid no live instance holds
uid_fresh(pool) ==
  {StrV(<<"a", u>>) : u \in pool} \ {obj[j].uid : j \in DOMAIN obj}

Init ==
  /\ obj = <<>>
  /\ ctor = <<>>
  /\ published = <<>>
  /\ last = NoCall

\* Ring(**a): the constructor; an exception leaves no object behind
New(i, a, py, pool) ==
  /\ i \notin DOMAIN obj
  /\ \E uid \in uid_fresh(pool) :
       LET f == init(uid, a, py)
       IN  /\ f.exc = "none" => Precise(f.self)
           /\ last' = Call(i, "init", None, f, FALSE)
           /\ IF f.exc = "none"
                THEN /\ obj' = Extend(obj, i, f.self)
                     /\ ctor' = Extend(ctor, i, a)
                     /\ published' = f.out
                ELSE /\ UNCHANGED <<obj, ctor>>
                     /\ published' = <<>>

\* the end of every setter call: the object as the call left it, the markups
\* the call assigned to value, and how the call ended
Finish(i, op, arg, f, old) ==
  /\ Precise(f.self)
  /\ obj' = Store(obj, i, f.self)
  /\ published' = f.out
  /\ last' = Call(i, op, arg, f, old = arg)
  /\ ctor' = [ctor EXCEPT ![i] = NoArgs]

SetSize(i, size) ==
  /\ i \in DOMAIN obj
  /\ Finish(i, "size", size, size_setter(Frame(obj[i]), size), obj[i]._size)

SetBorder(i, border, py) ==
  /\ i \in DOMAIN obj
  /\ Finish(i, "border", border, border_setter(Frame(obj[i]), border, py),
            obj[i]._border)

SetMargin(i, margin) ==
  /\ i \in DOMAIN obj
  /\ Finish(i, "margin", margin, margin_setter(Frame(obj[i]), margin),
            obj[i]._margin)

SetColor(i, color) ==
  /\ i \in DOMAIN obj
  /\ Finish(i, "color", color, color_setter(Frame(obj[i]), color),
            obj[i]._color)

SetBackgroundColor(i, color) ==
  /\ i \in DOMAIN obj
  /\ Finish(i, "background_color", color,
            background_color_setter(Frame(obj[i]), color),
            obj[i]._background_color)

NextOn(I, in) ==
  \E i \in I :
    \/ \E a \in CtorArgs(in) \cup {DefaultArgs}, py \in Pythons :
         New(i, a, py, in.uuids)
    \/ \E size \in in.sizes : SetSize(i, size)
    \/ \E border \in in.borders, py \in Pythons : SetBorder(i, border, py)
    \/ \E margin \in in.margins : SetMargin(i, margin)
    \/ \E color \in in.colors : SetColor(i, color)
    \/ \E color \in in.backgrounds : SetBackgroundColor(i, color)

\* one Ring
Next == NextOn({1}, Inputs)

Spec == Init /\ [][Next]_vars

\* two Rings, side by side
Next2 == NextOn(Instances, SmallInputs)

Spec2 == Init /\ [][Next2]_vars

-----------------------------------------------------------------------------
(* Properties *)

Setters == {"size", "border", "margin", "color", "background_color"}

\* the last call was a setter call that returned
SetterReturned == last.op \in Setters /\ last.exc = "none"

LastMarkup(pub) == pub[Len(pub)]

\* C1: a setMargin(m) with numeric m > 0.1 * size (the size when the call
\* starts) returns with margin m stored, size = the inner_height held when
\* the call started + 2*m, and its last markup rendered from that size and m.
C1_MarginOverflowGrowsSize ==
  [][\A i \in DOMAIN obj :
       (/\ last'.inst = i
        /\ last'.op = "margin"
        /\ IsNum(last'.arg)
        /\ Gt(last'.arg, Mul(obj[i]._size, F01)))
       => LET m    == last'.arg
              size == Add(ToFloat(obj[i].css_params.inner_height),
                          Mul(IntV(2), m))
              mk   == LastMarkup(published')
          IN  /\ last'.exc = "none"
              /\ obj'[i]._margin = m
              /\ obj'[i].css_params.margin = m
              /\ obj'[i]._size = size
              /\ obj'[i].css_params.size = size
              /\ Len(published') > 0
              /\ obj'[i].value = mk
              /\ mk.css.width = PyStr(size)
              /\ mk.css.height = PyStr(size)
              /\ mk.css.inner_width = PyStr(Mul(size, F08))
              /\ mk.css.inner_height = PyStr(Mul(size, F08))
              /\ mk.css.margin = PyStr(m)]_vars

\* a numeric setMargin that overflowed (the size setter rendered inside it)
C1_Witness ==
  /\ SetterReturned
  /\ last.op = "margin"
  /\ last.arg = IntV(5)
  /\ Len(published) = 2
  /\ obj[last.inst]._margin = IntV(5)
  /\ Gt(obj[last.inst]._size, IntV(20))

\* C2: every setter is idempotent: the same setter called twice in a row
\* with the same argument leaves the bag and the markup as the first call
\* left them.
C2_SettersIdempotent ==
  [][(/\ last.op \in Setters
      /\ last' = [last EXCEPT !.same = last'.same]
      /\ last.exc = "none")
     => /\ obj'[last.inst].css_params = obj[last.inst].css_params
        /\ obj'[last.inst].value = obj[last.inst].value]_vars

\* C3: setBorder(v) at inner_height d stores min(b, 0.5*d): b = 0.1*d for a
\* falsy v, v for a number, (p/100)*d for "p%", n for "npx"; "50%" and
\* "120%" both store 0.5*d.
C3_Percent(v) == IF v = S("50%") THEN IntV(50) ELSE IntV(120)

C3_Pixels(v) == FloatV(5, 2)

C3_Expected(v, d) ==
  IF ~Truthy(v) THEN Mul(d, F01)
  ELSE IF IsNum(v) THEN v
  ELSE IF v \in {S("50%"), S("120%")}
    THEN Mul(d, Div(ToFloat(C3_Percent(v)), IntV(100)))
  ELSE C3_Pixels(v)

C3_Covered(v) ==
  ~Truthy(v) \/ IsNum(v) \/ v \in {S("50%"), S("120%"), S("2.5px")}

C3_BorderParsedAndClamped ==
  (last.op = "border" /\ C3_Covered(last.arg))
  => LET o    == obj[last.inst]
         d    == o.css_params.inner_height
         b    == C3_Expected(last.arg, d)
         half == Mul(d, F05)
     IN  /\ last.exc = "none"
         /\ IsNum(o._border)
         /\ NumEq(o._border, IF Gt(b, half) THEN half ELSE b)
         /\ o.css_params.border = o._border
         /\ last.arg \in {S("50%"), S("120%")} => NumEq(o._border, half)

\* setBorder("120%") was called and the border is half the inner height
C3_Witness ==
  /\ last.op = "border"
  /\ last.arg = S("120%")
  /\ last.exc = "none"
  /\ NumEq(obj[last.inst]._border,
           Mul(obj[last.inst].css_params.inner_height, F05))

\* C4: a malformed border or margin string never raises; the setter returns
\* and stores the default (0.1 * inner_height, 0.1 * size).
C4_MalformedFallsBackToDefault ==
  /\ (last.op = "border" /\ last.arg \in {S("5em"), S("x%")})
     => /\ last.exc = "none"
        /\ IsNum(obj[last.inst]._border)
        /\ NumEq(obj[last.inst]._border,
                 Mul(obj[last.inst].css_params.inner_height, F01))
  /\ (last.op = "margin" /\ last.arg = S("5px"))
     => /\ last.exc = "none"
        /\ IsNum(obj[last.inst]._margin)
        /\ NumEq(obj[last.inst]._margin, Mul(obj[last.inst]._size, F01))

\* C5: in every state after construction width = height = size,
\* inner_width = inner_height = 0.8 * size, the size getter returns the
\* bag's size, and the markup carries those width and height values.
C5_SizeInvariant ==
  \A i \in DOMAIN obj :
    LET o == obj[i]
        b == o.css_params
    IN  /\ b.width = b.size
        /\ b.height = b.size
        /\ b.inner_width = Mul(b.size, F08)
        /\ b.inner_height = Mul(b.size, F08)
        /\ o._size = b.size
        /\ o.value.css.width = PyStr(b.width)
        /\ o.value.css.height = PyStr(b.height)

\* the size was escalated by setMargin to a size with a fractional part
C5_Witness ==
  /\ SetterReturned
  /\ last.op = "margin"
  /\ Len(published) = 2
  /\ obj[last.inst]._size.d > 1
  /\ obj[last.inst].value.css.width = PyStr(obj[last.inst]._size)

\* C6: every setter call that returns, also one whose argument is the
\* current value, renders as its last step, and the markup it leaves in
\* value is the substitution of the bag as the call left it.
C6_AlwaysRenders ==
  SetterReturned
  => LET o == obj[last.inst]
     IN  /\ Len(published) >= 1
         /\ LastMarkup(published) = Markup(o.css_params, o.uid)
         /\ o.value = LastMarkup(published)

\* setColor was called with the colour already set, and rendered
C6_Witness ==
  /\ SetterReturned
  /\ last.op = "color"
  /\ last.same
  /\ Len(published) = 1

\* C7: two Rings are independent: distinct uids; a call on one leaves the
\* other's attributes (bag and markup) unchanged; two Rings constructed with
\* the same arguments hold equal bags apart from css_class and markups that
\* differ only where the uid appears.
C7_Without(bag, key) == [x \in (DOMAIN bag) \ {key} |-> bag[x]]

C7_DistinctUids ==
  \A i, j \in DOMAIN obj : i # j => obj[i].uid # obj[j].uid

C7_SameArgsSameBag ==
  \A i, j \in DOMAIN obj :
    (i # j /\ ctor[i] = ctor[j] /\ ctor[i] # NoArgs)
    => /\ C7_Without(obj[i].css_params, "css_class")
            = C7_Without(obj[j].css_params, "css_class")
       /\ C7_Without(obj[i].value.css, "css_class")
            = C7_Without(obj[j].value.css, "css_class")
       /\ \A x \in {i, j} :
            /\ obj[x].value.css.css_class = PyStr(obj[x].uid)
            /\ obj[x].value.div_class = PyStr(obj[x].uid)

C8_OneMarkupPerCall ==
  SetterReturned
  => /\ Len(published) = 1
     /\ \A k \in 1..Len(published) :
          published[k]
            = Markup(obj[last.inst].css_params, obj[last.inst].uid)

\* C9: no markup ever assigned to value, the constructor's renders
\* included, holds an unresolved placeholder or a None border.
C9_NoUnresolvedPlaceholder ==
  \A k \in 1..Len(published) :
    /\ \A key \in TemplateKeys : published[k].css[key] # Placeholder(key)
    /\ published[k].css.border # NoneText

\* C10: in every state after construction the stored border is at most
\* 0.5 * the current inner_height.
C10_BorderOK(o) == Leq(o._border, Mul(o.css_params.inner_height, F05))

C10_BorderAlwaysClamped == \A i \in DOMAIN obj : C10_BorderOK(obj[i])

\* C10 as amended: the bound holds after construction and after every
\* setBorder call that returns, and every call other than a direct setSize
\* preserves it (a setMargin escalation only grows the size).
C10_BorderClampedUnlessResized ==
  [][\A i \in DOMAIN obj' :
       /\ i \notin DOMAIN obj => C10_BorderOK(obj'[i])
       /\ (last'.inst = i /\ last'.op = "border" /\ last'.exc = "none")
          => C10_BorderOK(obj'[i])
       /\ (/\ i \in DOMAIN obj
           /\ C10_BorderOK(obj[i])
           /\ ~(last'.inst = i /\ last'.op = "size"))
          => C10_BorderOK(obj'[i])]_vars

\* a border above a quarter of the inner height survived a setMargin
\* escalation within the bound
C10_Witness ==
  /\ SetterReturned
  /\ last.op = "margin"
  /\ Len(published) = 2
  /\ C10_BorderOK(obj[last.inst])
  /\ Gt(Mul(obj[last.inst]._border, IntV(4)),
        obj[last.inst].css_params.inner_height)

====
